---- MODULE Spec2Model ----
(***************************************************************************)
(* The batch migration of src/src/processor.rs: process_migrate (the batch *)
(* driver, the semaphore-bounded task pool and the join loop) and          *)
(* migrate_mint (the per-item resolution chain and the submission).        *)
(*                                                                         *)
(* The driver is one process (pc); every spawned tokio task is one process *)
(* (task[i].pc).  The remote collaborators (get_state, RpcClient,          *)
(* migrate_item, the file system) are the environment: each call returns   *)
(* Ok or Err, or faults (a panic inside the task).                         *)
(***************************************************************************)
EXTENDS Integers, Sequences, FiniteSets, TLC

\* ---------------------------------------------------------------- bounds
MaxItems == 2          \* longest mint list enumerated
MaxLimit == 1          \* semaphore widths 1..MaxLimit are enumerated next to the source's

\* ------------------------------------------------------ program constants
SemaphorePermits == 100        \* Semaphore::new(100)

\* The width of the semaphore is a parameter of the model: the source's 100,
\* which no enumerated list saturates, and the small widths that lists of
\* up to MaxItems mints do saturate.
Limits == (1..MaxLimit) \cup {SemaphorePermits}

\* ------------------------------------------------------------ value sets
Bad       == 0                               \* a string Pubkey::from_str rejects
Tasks     == 1..MaxItems                     \* task i handles the i-th mint
RuleSets  == {"rs1"}                         \* rule sets get_state can return
Collections == {"col"}                       \* the collection_mint argument
Sigs      == {"tx1"}                         \* signatures migrate_item can return
ProgramStates == {"undecodable", "Uninitialized", "Buffer", "Program", "ProgramData"}
None      == "none"

\* the chain of migrate_mint, in program order
Chain == << "get_nft_token_account", "get_token_account", "unpack",
            "get_owner_account", "get_owner_program_account", "migrate_item" >>
ChainSteps == {Chain[k] : k \in 1..Len(Chain)}

\* the mint lists enumerated: 1..n, 1..n with the last entry repeating the
\* first, and 1..n with one malformed entry
DistinctList(n) == [k \in 1..n |-> k]
DupList(n)      == [k \in 1..n |-> IF k = n THEN 1 ELSE k]
BadList(n, j)   == [k \in 1..n |-> IF k = j THEN Bad ELSE k]
InputLists ==
    {DistinctList(n) : n \in 0..MaxItems}
        \cup {DupList(n) : n \in 2..MaxItems}
        \cup UNION {{BadList(n, j) : j \in 1..n} : n \in 1..MaxItems}

VARIABLES
    pc,               \* position of process_migrate
    mint_list,        \* the strings of the input file
    mints,            \* Vec<Pubkey> after parsing
    collection_mint,  \* argument of process_migrate
    rule_set,         \* migrate_state.collection_info.rule_set
    limit,            \* width the semaphore was created with
    permits,          \* permits available in the semaphore
    held,             \* the driver holds a permit not yet moved into a task
    next,             \* index of the mint the for loop is at
    errors_refs,      \* strong count of the Arc around the batch-level errors
    completed_mints,  \* batch-level Vec<MigratedMint>
    errors,           \* batch-level Vec<MigrationError>
    task,             \* per task: pc, item_mint, ItemContext, per-task collectors
    joined,           \* tasks whose JoinHandle the join loop has consumed
    files,            \* output files: name -> [state, content]
    result,           \* what process_migrate returned
    \* history variables
    get_state_calls,  \* calls of get_state so far
    get_state_result, \* "none" | "ok" | "err"
    recorded,         \* per task: the Outcome migrate_mint recorded
    submitted         \* the MigrateParams of every migrate_item call

vars == << pc, mint_list, mints, collection_mint, rule_set, limit, permits, held,
           next, errors_refs, completed_mints, errors, task, joined, files, result,
           get_state_calls, get_state_result, recorded, submitted >>

driverVars == << pc, mints, rule_set, permits, held, next, errors_refs, joined,
                 files, result, get_state_calls, get_state_result >>

\* ---------------------------------------------------------------- helpers
SeqToSet(s) == {s[k] : k \in 1..Len(s)}

Unspawned == [pc |-> "unspawned", item_mint |-> Bad, program_account |-> None,
              buffer |-> None, errors |-> << >>, completed_mints |-> << >>,
              ret |-> None]

\* FromStr that rejects nothing
FromStr_AcceptsAll(s) == "Ok"

\* Pubkey::from_str
FromStr(s) == IF s = Bad THEN "Err" ELSE "Ok"

MigrationError(mint, e) == [mint |-> mint, error |-> e]
MigratedMint(sig, mint) == [sig |-> sig, item_mint |-> mint]

NoFile == [state |-> "absent", content |-> << >>]
Created == [state |-> "created", content |-> << >>]
Written(seq) == [state |-> "written", content |-> seq]

NoOutcome == [kind |-> "none", mint |-> Bad, detail |-> None]
Failure(mint, e) == [kind |-> "Failure", mint |-> mint, detail |-> e]
Success(mint, sig) == [kind |-> "Success", mint |-> mint, detail |-> sig]

SuccessName  == "migrated_mints"
FailuresName == "failed_mints"

Running(i) == task[i].pc \in ChainSteps \cup {"return", "boundary"}
Ended(i)   == task[i].pc \in {"finished", "panicked"}
Spawned(i) == task[i].pc # "unspawned"

Init ==
    /\ pc = "load"
    /\ mint_list \in InputLists
    /\ mints = << >>
    /\ collection_mint \in Collections
    /\ rule_set = None
    /\ limit \in Limits
    /\ permits = limit
    /\ held = FALSE
    /\ next = 1
    /\ errors_refs = 0
    /\ completed_mints = << >>
    /\ errors = << >>
    /\ task = [i \in Tasks |-> Unspawned]
    /\ joined = {}
    /\ files = [n \in {SuccessName, FailuresName} |-> NoFile]
    /\ result = None
    /\ get_state_calls = 0
    /\ get_state_result = "none"
    /\ recorded = [i \in Tasks |-> NoOutcome]
    /\ submitted = {}

\* ------------------------------------------------------------ the driver
Return(r) ==
    /\ pc' = "returned"
    /\ result' = r

\* process_migrate, File::open and serde_json::from_reader
Load ==
    /\ pc = "load"
    /\ \E ok \in BOOLEAN :
         IF ok THEN pc' = "parse" /\ result' = result
               ELSE Return("Err")
    /\ UNCHANGED << mint_list, mints, collection_mint, rule_set, limit, permits, held,
                    next, errors_refs, completed_mints, errors, task, joined, files,
                    get_state_calls, get_state_result, recorded, submitted >>

\* mints.into_iter().map(|s| Pubkey::from_str(&s).unwrap()).collect()
Parse ==
    /\ pc = "parse"
    /\ IF \E k \in 1..Len(mint_list) : FromStr(mint_list[k]) = "Err"
         THEN /\ pc' = "panicked"
              /\ result' = "panic"
              /\ mints' = mints
         ELSE /\ pc' = "get_state"
              /\ result' = result
              /\ mints' = mint_list
    /\ UNCHANGED << mint_list, collection_mint, rule_set, limit, permits, held,
                    next, errors_refs, completed_mints, errors, task, joined, files,
                    get_state_calls, get_state_result, recorded, submitted >>

\* the for loop's test: another mint to dispatch, or on to the join loop
LoopHead(k) == IF k <= Len(mints) THEN "acquire" ELSE "join"

\* GetState with the error of get_state swallowed: the batch goes on without
\* a rule set
GetState_IgnoresError ==
    /\ pc = "get_state"
    /\ get_state_calls' = get_state_calls + 1
    /\ \E r \in RuleSets \cup {"Err"} :
         /\ get_state_result' = IF r = "Err" THEN "err" ELSE "ok"
         /\ rule_set' = IF r = "Err" THEN None ELSE r
         /\ completed_mints' = << >>
         /\ errors' = << >>
         /\ errors_refs' = 1
         /\ pc' = LoopHead(next)
         /\ result' = result
    /\ UNCHANGED << mint_list, mints, collection_mint, limit, permits, held, next,
                    task, joined, files, recorded, submitted >>

\* get_state(..)?, then the set-up of the aggregator, the Arcs and the semaphore
GetState ==
    /\ pc = "get_state"
    /\ get_state_calls' = get_state_calls + 1
    /\ \E r \in RuleSets \cup {"Err"} :
         IF r = "Err"
           THEN /\ Return("Err")
                /\ get_state_result' = "err"
                /\ UNCHANGED << rule_set, errors_refs, completed_mints, errors >>
           ELSE /\ get_state_result' = "ok"
                /\ rule_set' = r
                /\ completed_mints' = << >>
                /\ errors' = << >>
                /\ errors_refs' = 1
                /\ pc' = LoopHead(next)
                /\ result' = result
    /\ UNCHANGED << mint_list, mints, collection_mint, limit, permits, held, next,
                    task, joined, files, recorded, submitted >>

\* Acquire that does not wait for a free permit
Acquire_NoWait ==
    /\ pc = "acquire"
    /\ permits' = permits - 1
    /\ held' = TRUE
    /\ pc' = "spawn"
    /\ UNCHANGED << mint_list, mints, collection_mint, rule_set, limit, next,
                    errors_refs, completed_mints, errors, task, joined, files, result,
                    get_state_calls, get_state_result, recorded, submitted >>

\* Arc::clone(&semaphore).acquire_owned().await
Acquire ==
    /\ pc = "acquire"
    /\ permits > 0
    /\ permits' = permits - 1
    /\ held' = TRUE
    /\ pc' = "spawn"
    /\ UNCHANGED << mint_list, mints, collection_mint, rule_set, limit, next,
                    errors_refs, completed_mints, errors, task, joined, files, result,
                    get_state_calls, get_state_result, recorded, submitted >>

\* Spawn with the state lookup repeated for every item
Spawn_RefetchesState ==
    /\ pc = "spawn"
    /\ errors_refs' = errors_refs + 1
    /\ task' = [task EXCEPT ![next] =
                  [pc |-> Chain[1], item_mint |-> mints[next],
                   program_account |-> None, buffer |-> None, errors |-> << >>,
                   completed_mints |-> << >>, ret |-> None]]
    /\ held' = FALSE
    /\ next' = next + 1
    /\ pc' = LoopHead(next + 1)
    /\ get_state_calls' = get_state_calls + 1
    /\ UNCHANGED << mint_list, mints, collection_mint, rule_set, limit, permits,
                    completed_mints, errors, joined, files, result,
                    get_state_result, recorded, submitted >>

\* the clones, tasks.push(tokio::spawn(..)) and the task's MigrateArgs
Spawn ==
    /\ pc = "spawn"
    /\ errors_refs' = errors_refs + 1
    /\ task' = [task EXCEPT ![next] =
                  [pc |-> Chain[1], item_mint |-> mints[next],
                   program_account |-> None, buffer |-> None, errors |-> << >>,
                   completed_mints |-> << >>, ret |-> None]]
    /\ held' = FALSE
    /\ next' = next + 1
    /\ pc' = LoopHead(next + 1)
    /\ UNCHANGED << mint_list, mints, collection_mint, rule_set, limit, permits,
                    completed_mints, errors, joined, files, result,
                    get_state_calls, get_state_result, recorded, submitted >>

\* while let Some(task) = tasks.next().await { task?; }, one finished handle
JoinNext(i) ==
    /\ pc = "join"
    /\ Ended(i)
    /\ i \notin joined
    /\ IF task[i].pc = "panicked"
         THEN /\ Return("Err")
              /\ joined' = joined
         ELSE /\ joined' = joined \cup {i}
              /\ pc' = pc
              /\ result' = result
    /\ UNCHANGED << mint_list, mints, collection_mint, rule_set, limit, permits, held,
                    next, errors_refs, completed_mints, errors, task, files,
                    get_state_calls, get_state_result, recorded, submitted >>

\* tasks.next() yields None: every handle has been consumed
JoinDone ==
    /\ pc = "join"
    /\ joined = 1..Len(mints)
    /\ pc' = "finalize"
    /\ UNCHANGED << mint_list, mints, collection_mint, rule_set, limit, permits, held,
                    next, errors_refs, completed_mints, errors, task, joined, files,
                    result, get_state_calls, get_state_result, recorded, submitted >>

\* Arc::try_unwrap(..).unwrap().into_inner() of both sequences
Finalize ==
    /\ pc = "finalize"
    /\ IF errors_refs = 1
         THEN pc' = "create" /\ result' = result
         ELSE pc' = "panicked" /\ result' = "panic"
    /\ UNCHANGED << mint_list, mints, collection_mint, rule_set, limit, permits, held,
                    next, errors_refs, completed_mints, errors, task, joined, files,
                    get_state_calls, get_state_result, recorded, submitted >>

\* File::create(success_name)?; File::create(failures_name)?
CreateFiles ==
    /\ pc = "create"
    /\ \E r \in {"ok", "err1", "err2"} :
         /\ files' = [files EXCEPT
                        ![SuccessName]  = IF r = "err1" THEN @ ELSE Created,
                        ![FailuresName] = IF r = "ok" THEN Created ELSE @]
         /\ IF r = "ok" THEN pc' = "write" /\ result' = result
                        ELSE Return("Err")
    /\ UNCHANGED << mint_list, mints, collection_mint, rule_set, limit, permits, held,
                    next, errors_refs, completed_mints, errors, task, joined,
                    get_state_calls, get_state_result, recorded, submitted >>

\* serde_json::to_writer_pretty of both sequences, then Ok(())
WriteFiles ==
    /\ pc = "write"
    /\ \E r \in {"ok", "err1", "err2"} :
         /\ files' = [files EXCEPT
                        ![SuccessName]  = IF r = "err1" THEN @ ELSE Written(completed_mints),
                        ![FailuresName] = IF r = "ok" THEN Written(errors) ELSE @]
         /\ Return(IF r = "ok" THEN "Ok" ELSE "Err")
    /\ UNCHANGED << mint_list, mints, collection_mint, rule_set, limit, permits, held,
                    next, errors_refs, completed_mints, errors, task, joined,
                    get_state_calls, get_state_result, recorded, submitted >>

\* ------------------------------------------------------- the tasks
\* the message of the error a failed step returns (e.to_string())
ErrorOf(step) == step

\* ShortCircuit without the return: the chain goes on after the push
ShortCircuit_NoReturn(i, step) ==
    /\ task' = [task EXCEPT ![i].errors =
                     Append(@, MigrationError(task[i].item_mint, ErrorOf(step))),
                            ![i].program_account = None,
                            ![i].pc = IF step = Chain[Len(Chain)] THEN "return"
                                      ELSE Chain[(CHOOSE k \in 1..Len(Chain) : Chain[k] = step) + 1]]
    /\ recorded' = [recorded EXCEPT ![i] = Failure(task[i].item_mint, ErrorOf(step))]

\* the Err(e) arm of a step: args.errors.lock().await.push(..), then return Ok(())
ShortCircuit(i, step) ==
    /\ task' = [task EXCEPT ![i].errors =
                     Append(@, MigrationError(task[i].item_mint, ErrorOf(step))),
                            ![i].program_account = None,
                            ![i].pc = "return"]
    /\ recorded' = [recorded EXCEPT ![i] = Failure(task[i].item_mint, ErrorOf(step))]

\* the Ok arm of a lookup: on to the next step of the chain
Proceed(i, k) ==
    /\ task' = [task EXCEPT ![i].pc = Chain[k + 1]]
    /\ recorded' = recorded

\* one fallible lookup of the chain, Chain[k]
Lookup(i, k) ==
    /\ task[i].pc = Chain[k]
    /\ \E ok \in BOOLEAN :
         IF ok THEN Proceed(i, k) ELSE ShortCircuit(i, Chain[k])
    /\ UNCHANGED << driverVars, mint_list, collection_mint, limit, completed_mints,
                    errors, submitted >>

\* get_nft_token_account(&args.client, args.item_mint)
GetNftTokenAccount(i) == Lookup(i, 1)

\* args.client.get_account(&item_token)
GetTokenAccount(i) == Lookup(i, 2)

\* TokenAccount::unpack(&account.data)
Unpack(i) == Lookup(i, 3)

\* args.client.get_account(&token_owner)
GetOwnerAccount(i) == Lookup(i, 4)

\* ProgramBuffer that takes an address from every variant that decodes
ProgramBuffer_AnyDecoded(state) == IF state # "undecodable" THEN "programdata" ELSE None

\* the buffer passed on: the program-data address of an upgradeable Program
ProgramBuffer(state) == IF state = "Program" THEN "programdata" ELSE None

\* args.client.get_account(&token_owner_program), then the decoding of its data
GetOwnerProgramAccount(i) ==
    /\ task[i].pc = Chain[5]
    /\ \E r \in ProgramStates \cup {"Err"} :
         IF r = "Err"
           THEN ShortCircuit(i, Chain[5])
           ELSE /\ task' = [task EXCEPT ![i].pc = Chain[6],
                                        ![i].program_account = r,
                                        ![i].buffer = ProgramBuffer(r)]
                /\ recorded' = recorded
    /\ UNCHANGED << driverVars, mint_list, collection_mint, limit, completed_mints,
                    errors, submitted >>

\* MigrateParams with a default rule set in place of the one fetched
MigrateParams_DefaultRuleSet(i) ==
    [task |-> i, nth |-> Cardinality({p \in submitted : p.task = i}) + 1,
     item_mint |-> task[i].item_mint,
     token_owner_program_buffer |-> task[i].buffer,
     collection_mint |-> collection_mint, rule_set |-> None]

\* the arguments of one migrate_item call; task and nth tell the calls apart
MigrateParams(i) ==
    [task |-> i, nth |-> Cardinality({p \in submitted : p.task = i}) + 1,
     item_mint |-> task[i].item_mint,
     token_owner_program_buffer |-> task[i].buffer,
     collection_mint |-> collection_mint, rule_set |-> rule_set]

\* MigrateItem that submits again after an error
MigrateItem_Retries(i) ==
    /\ task[i].pc = Chain[6]
    /\ submitted' = submitted \cup {MigrateParams(i)}
    /\ \E r \in Sigs \cup {"Err"} :
         IF r = "Err"
           THEN task' = task /\ recorded' = recorded
           ELSE /\ task' = [task EXCEPT ![i].completed_mints =
                                 Append(@, MigratedMint(r, task[i].item_mint)),
                                        ![i].program_account = None,
                                        ![i].pc = "return"]
                /\ recorded' = [recorded EXCEPT ![i] = Success(task[i].item_mint, r)]
    /\ UNCHANGED << driverVars, mint_list, collection_mint, limit, completed_mints,
                    errors >>

\* migrate_item(params), and the push of the MigratedMint; the program account
\* fetched in the step before is not read again
MigrateItem(i) ==
    /\ task[i].pc = Chain[6]
    /\ submitted' = submitted \cup {MigrateParams(i)}
    /\ \E r \in Sigs \cup {"Err"} :
         IF r = "Err"
           THEN ShortCircuit(i, Chain[6])
           ELSE /\ task' = [task EXCEPT ![i].completed_mints =
                                 Append(@, MigratedMint(r, task[i].item_mint)),
                                        ![i].program_account = None,
                                        ![i].pc = "return"]
                /\ recorded' = [recorded EXCEPT ![i] = Success(task[i].item_mint, r)]
    /\ UNCHANGED << driverVars, mint_list, collection_mint, limit, completed_mints,
                    errors >>

\* the value migrate_mint returns, given the Outcome it recorded
MigrateMintResult(outcome) == "Ok"

\* MigrateMintReturn with the task's collectors merged into the batch-level ones
MigrateMintReturn_MergesCollectors(i) ==
    /\ task[i].pc = "return"
    /\ task' = [task EXCEPT ![i].pc = "boundary",
                            ![i].ret = MigrateMintResult(recorded[i]),
                            ![i].program_account = None,
                            ![i].buffer = None,
                            ![i].errors = << >>,
                            ![i].completed_mints = << >>]
    /\ errors' = errors \o task[i].errors
    /\ completed_mints' = completed_mints \o task[i].completed_mints
    /\ UNCHANGED << driverVars, mint_list, collection_mint, limit, recorded, submitted >>

\* migrate_mint returns: args, with its collectors and the ItemContext, is dropped
MigrateMintReturn(i) ==
    /\ task[i].pc = "return"
    /\ task' = [task EXCEPT ![i].pc = "boundary",
                            ![i].ret = MigrateMintResult(recorded[i]),
                            ![i].program_account = None,
                            ![i].buffer = None,
                            ![i].errors = << >>,
                            ![i].completed_mints = << >>]
    /\ UNCHANGED << driverVars, mint_list, collection_mint, limit, completed_mints,
                    errors, recorded, submitted >>

\* TaskEnd with the permit leaked
TaskEnd_KeepsPermit(i, how) ==
    /\ task' = [task EXCEPT ![i].pc = how, ![i].program_account = None,
                            ![i].buffer = None, ![i].errors = << >>,
                            ![i].completed_mints = << >>]
    /\ permits' = permits
    /\ errors_refs' = errors_refs - 1

\* the end of a task, by return or by unwinding: the permit and the clone of
\* errors the closure owns are dropped
TaskEnd(i, how) ==
    /\ task' = [task EXCEPT ![i].pc = how, ![i].program_account = None,
                            ![i].buffer = None, ![i].errors = << >>,
                            ![i].completed_mints = << >>]
    /\ permits' = permits + 1
    /\ errors_refs' = errors_refs - 1

\* BoundaryErrors with the push made in both arms of the match
BoundaryErrors_BothArms(i) ==
    Append(errors, MigrationError(task[i].item_mint, task[i].ret))

\* match migrate_mint(args).await { Ok(_) => {}, Err(e) => errors.lock().await.push(..) }
BoundaryErrors(i) ==
    IF task[i].ret = "Ok"
      THEN errors
      ELSE Append(errors, MigrationError(task[i].item_mint, task[i].ret))

\* TaskBoundary that records the item in both batch-level sequences
TaskBoundary_RecordsTwice(i) ==
    /\ task[i].pc = "boundary"
    /\ errors' = Append(errors, MigrationError(task[i].item_mint, task[i].ret))
    /\ completed_mints' = Append(completed_mints, MigratedMint(task[i].ret, task[i].item_mint))
    /\ TaskEnd(i, "finished")
    /\ UNCHANGED << pc, mint_list, mints, collection_mint, rule_set, limit, held, next,
                    joined, files, result, get_state_calls,
                    get_state_result, recorded, submitted >>

\* the match on migrate_mint's result, pb.inc(1) and the end of the task
TaskBoundary(i) ==
    /\ task[i].pc = "boundary"
    /\ errors' = BoundaryErrors(i)
    /\ TaskEnd(i, "finished")
    /\ UNCHANGED << pc, mint_list, mints, collection_mint, rule_set, limit, held, next,
                    completed_mints, joined, files, result, get_state_calls,
                    get_state_result, recorded, submitted >>

\* TaskPanic with the permit lost in the unwinding
TaskPanic_LeaksPermit(i) ==
    /\ task[i].pc \in ChainSteps
    /\ task' = [task EXCEPT ![i].pc = "panicked", ![i].program_account = None,
                            ![i].buffer = None, ![i].errors = << >>,
                            ![i].completed_mints = << >>]
    /\ errors_refs' = errors_refs - 1
    /\ UNCHANGED << pc, mint_list, mints, collection_mint, rule_set, limit, held, next,
                    permits, completed_mints, errors, joined, files, result,
                    get_state_calls, get_state_result, recorded, submitted >>

\* a fault inside a collaborator's call: the task unwinds
TaskPanic(i) ==
    /\ task[i].pc \in ChainSteps
    /\ TaskEnd(i, "panicked")
    /\ UNCHANGED << pc, mint_list, mints, collection_mint, rule_set, limit, held, next,
                    completed_mints, errors, joined, files, result, get_state_calls,
                    get_state_result, recorded, submitted >>

MigrateMint(i) ==
    \/ GetNftTokenAccount(i)
    \/ GetTokenAccount(i)
    \/ Unpack(i)
    \/ GetOwnerAccount(i)
    \/ GetOwnerProgramAccount(i)
    \/ MigrateItem(i)
    \/ MigrateMintReturn(i)

TaskStep(i) == MigrateMint(i) \/ TaskBoundary(i) \/ TaskPanic(i)

Next ==
    \/ Load
    \/ Parse
    \/ GetState
    \/ Acquire
    \/ Spawn
    \/ \E i \in Tasks : JoinNext(i)
    \/ JoinDone
    \/ Finalize
    \/ CreateFiles
    \/ WriteFiles
    \/ \E i \in Tasks : GetNftTokenAccount(i)
    \/ \E i \in Tasks : GetTokenAccount(i)
    \/ \E i \in Tasks : Unpack(i)
    \/ \E i \in Tasks : GetOwnerAccount(i)
    \/ \E i \in Tasks : GetOwnerProgramAccount(i)
    \/ \E i \in Tasks : MigrateItem(i)
    \/ \E i \in Tasks : MigrateMintReturn(i)
    \/ \E i \in Tasks : TaskBoundary(i)
    \/ \E i \in Tasks : TaskPanic(i)

Spec == Init /\ [][Next]_vars

\* the tokio runtime keeps running the driver and every ready task, and every
\* remote call returns: the batch does not stop while a step can be taken.
\* Every step moves one process forward and no process loops, so this is as
\* strong as fairness for each process.  A fault is an outcome of a step, not
\* something that has to happen.
FairSpec == Spec /\ WF_vars(Next)

\* ------------------------------------------------------------ properties
Items         == 1..Len(mints)
RunningSet    == {i \in Tasks : Running(i)}
Terminated    == pc \in {"returned", "panicked"}
\* the batch-level sequences have been taken out of their Arcs
Finalized     == pc \in {"create", "write"} \/ result = "Ok"
AnyPanicked   == \E i \in Tasks : task[i].pc = "panicked"
Distinct(seq) == \A j, k \in 1..Len(seq) : seq[j] = seq[k] => j = k
ErrorsFor(m)  == {k \in 1..Len(errors) : errors[k].mint = m}
MintsFor(m)   == {k \in 1..Len(completed_mints) : completed_mints[k].item_mint = m}

\* C1: at finalize the batch-level success and failure sequences hold exactly
\* one Outcome per input item, N in all, and for a list of distinct
\* identifiers no identifier twice.
C1_OneOutcomePerItem ==
    Finalized =>
        /\ Len(completed_mints) + Len(errors) = Len(mints)
        /\ Distinct(mints) =>
             \A k \in Items :
                 Cardinality(ErrorsFor(mints[k])) + Cardinality(MintsFor(mints[k])) = 1

\* C2: at finalize the batch-level success list holds {item, transaction id}
\* for every item whose submission returned a transaction id, and the
\* batch-level failure list holds {item, message} for every item whose
\* submission returned an error.
C2_SubmissionOutcomeListed ==
    Finalized =>
        \A i \in Items :
            /\ recorded[i].kind = "Success" =>
                 MigratedMint(recorded[i].detail, mints[i]) \in SeqToSet(completed_mints)
            /\ recorded[i] = Failure(mints[i], ErrorOf(Chain[6])) =>
                 MigrationError(mints[i], ErrorOf(Chain[6])) \in SeqToSet(errors)

\* C3: at finalize an item that failed at a step of the chain or in submission
\* has exactly one Failure in the batch-level failure list, and every other
\* item was dispatched and has reached its own outcome.
C3_FailureListedOthersProceed ==
    Finalized =>
        \A i \in Items :
            recorded[i].kind = "Failure" =>
                /\ Distinct(mints) => Cardinality(ErrorsFor(mints[i])) = 1
                /\ Len(errors) >= 1
                /\ \A j \in Items \ {i} :
                       task[j].pc = "finished" /\ recorded[j].kind # "none"

\* C4: never more tasks between their start and their end than the semaphore
\* has permits, which is at most 100; and a task starts only in a step of the
\* driver that hands over a permit it had acquired.
C4_AtMostLimitRunning ==
    /\ [](/\ Cardinality(RunningSet) <= limit
          /\ limit <= SemaphorePermits
          /\ permits >= 0)
    /\ [][\A i \in Tasks :
            (~Spawned(i) /\ Spawned(i)') => (held /\ ~held')]_vars

\* the semaphore is saturated, the driver waits with items left to dispatch
C4_Witness ==
    /\ pc = "acquire"
    /\ permits = 0
    /\ Cardinality(RunningSet) = limit
    /\ next <= Len(mints)

\* C5: the aggregator is finalized, and process_migrate returns, only after
\* every spawned task has finished: from finalize on, and after the return,
\* no task is running and no task holds a clone of the aggregator.
C5_JoinBarrier ==
    (pc \in {"finalize", "create", "write"} \/ Terminated) =>
        /\ \A i \in Tasks : Spawned(i) => Ended(i)
        /\ errors_refs <= 1

\* C6: a task that panicked has, once the batch is over, a Failure naming its
\* item in the batch-level failure list, and the batch has waited for every
\* other task and finalized.
C6_PanicBecomesFailure ==
    (Terminated /\ get_state_result = "ok") =>
        \A i \in Tasks :
            task[i].pc = "panicked" =>
                /\ ErrorsFor(task[i].item_mint) # {}
                /\ \A j \in Items : Ended(j)
                /\ files[SuccessName].state # "absent" \/ result = "Err"

\* C7: after a failed get_state the batch has returned the error, no task
\* was spawned, nothing was recorded or submitted and no file exists.
C7_StateLookupFailureAborts ==
    get_state_result = "err" =>
        /\ pc = "returned" /\ result = "Err"
        /\ \A i \in Tasks : ~Spawned(i) /\ recorded[i] = NoOutcome
        /\ completed_mints = << >> /\ errors = << >>
        /\ submitted = {}
        /\ errors_refs = 0 /\ ~held /\ permits = limit
        /\ \A n \in DOMAIN files : files[n] = NoFile

\* get_state failed on a batch that had items to dispatch
C7_Witness ==
    /\ get_state_result = "err"
    /\ pc = "returned"
    /\ Len(mints) >= 1

\* C8: get_state is called at most once, exactly once in a batch that got
\* to its dispatch loop, and it has returned before any task exists.
C8_SingleStateLookup ==
    /\ get_state_calls <= 1
    /\ pc \in {"acquire", "spawn", "join", "finalize", "create", "write"} =>
         get_state_calls = 1 /\ get_state_result = "ok"
    /\ result = "Ok" => get_state_calls = 1
    /\ \A i \in Tasks : Spawned(i) => get_state_calls = 1 /\ get_state_result = "ok"

\* a batch whose tasks have all run, after the one state lookup
C8_Witness ==
    /\ pc = "join"
    /\ Len(mints) >= 2
    /\ \A i \in Items : task[i].pc = "finished"
    /\ get_state_calls = 1

\* C9: under fair scheduling the batch terminates for every semaphore width
\* and every list length; once the state lookup succeeded every item is
\* dispatched, and unless a task faults every task finishes and the join
\* loop completes.
C9_Terminates ==
    /\ <>Terminated
    /\ [](Terminated /\ get_state_result = "ok" =>
            /\ \A i \in Items : Spawned(i)
            /\ AnyPanicked \/ (joined = Items /\ \A i \in Items : task[i].pc = "finished"))

\* a batch longer than the semaphore is wide has run to its end
C9_Witness ==
    /\ pc = "returned" /\ result = "Ok"
    /\ limit < Len(mints)
    /\ \A i \in Items : task[i].pc = "finished"

\* the failures the batch-level sequence holds at finalize, as the per-item
\* results determine them
ExpectedErrorIndexes == {i \in Items : MigrateMintResult(recorded[i]) # "Ok"}
ExpectedErrors ==
    {MigrationError(mints[i], MigrateMintResult(recorded[i])) : i \in ExpectedErrorIndexes}

\* C10: the BatchResult at finalize, as a set, is determined by the per-item
\* results alone, whatever the semaphore width and the interleaving.
C10_ResultDeterminedByItems ==
    Finalized =>
        /\ SeqToSet(errors) = ExpectedErrors
        /\ Len(errors) = Cardinality(ExpectedErrorIndexes)
        /\ SeqToSet(completed_mints) = {}

\* two items with different results were processed one after the other
C10_Witness ==
    /\ Finalized
    /\ limit = 1
    /\ Len(mints) >= 2
    /\ recorded[1].kind = "Success"
    /\ recorded[2].kind = "Failure"

\* ---------------------------------------------------------------------
BufferFor(account) == IF account = "Program" THEN "programdata" ELSE None
SubmittedBy(i)     == {p \in submitted : p.task = i}
SubmittedFor(m)    == {p \in submitted : p.item_mint = m}
Holding            == {i \in Tasks : Spawned(i) /\ ~Ended(i)}

\* C11: a program account that does not decode, or decodes to a variant other
\* than Program, leaves the buffer absent and the chain goes on to the
\* submission with no Failure recorded; a Program account gives its
\* program-data address; and the submission receives exactly that buffer.
C11_BufferFollowsProgramAccount ==
    /\ [](\A i \in Tasks :
            task[i].pc = Chain[6] =>
                /\ task[i].program_account \in ProgramStates
                /\ task[i].buffer = BufferFor(task[i].program_account)
                /\ recorded[i] = NoOutcome)
    /\ [][\A i \in Tasks :
            /\ (task[i].pc = Chain[5] /\ task'[i].pc = "return") =>
                  recorded'[i] = Failure(task[i].item_mint, ErrorOf(Chain[5]))
            /\ (task[i].pc = Chain[6] /\ task'[i].pc = "return") =>
                  \E p \in submitted' \ submitted :
                      /\ p.task = i
                      /\ p.token_owner_program_buffer = BufferFor(task[i].program_account)]_vars

\* one task is about to submit with an absent buffer for an account that does
\* not decode, another has submitted the address of a Program account
C11_Witness ==
    \E i \in Tasks :
        /\ task[i].pc = Chain[6]
        /\ task[i].program_account = "undecodable"
        /\ task[i].buffer = None
        /\ \E p \in submitted : p.token_owner_program_buffer = "programdata"

\* C12: a run that got past the state lookup ends with both output records
\* written (unless creating or writing the files themselves failed, after the
\* join loop had completed), and no output record exists while a task runs.
C12_OutputAlwaysWritten ==
    /\ (Terminated /\ get_state_result = "ok" /\ ~(joined = Items /\ result = "Err")) =>
         /\ result = "Ok"
         /\ \A n \in DOMAIN files : files[n].state = "written"
    /\ (\E n \in DOMAIN files : files[n] # NoFile) =>
         \A i \in Tasks : Spawned(i) => Ended(i)

\* C13: a mint list with a malformed entry never gets past parsing: no state
\* lookup, no task, no submission, no output file.
C13_MalformedListAborts ==
    (\E k \in 1..Len(mint_list) : mint_list[k] = Bad) =>
        /\ pc \in {"load", "parse", "panicked", "returned"}
        /\ pc = "returned" => result = "Err"
        /\ mints = << >>
        /\ get_state_calls = 0 /\ rule_set = None
        /\ \A i \in Tasks : ~Spawned(i)
        /\ submitted = {}
        /\ \A n \in DOMAIN files : files[n] = NoFile

\* a list with a malformed entry next to well-formed ones has failed at parsing
C13_Witness ==
    /\ pc = "panicked"
    /\ Len(mint_list) >= 2
    /\ \E k \in 1..Len(mint_list) : mint_list[k] = Bad
    /\ \E k \in 1..Len(mint_list) : mint_list[k] # Bad

\* C14: a task goes through the chain in program order; a failure at a step
\* ends the chain there, with no later step and, before the submission step,
\* no submission; and migrate_mint then returns Ok.
C14_ChainShortCircuits ==
    /\ [](\A i \in Tasks :
            recorded[i].kind = "Failure" =>
                /\ task[i].pc \in {"return", "boundary", "finished"}
                /\ task[i].pc # "return" => task[i].ret = "Ok"
                /\ recorded[i].detail # ErrorOf(Chain[6]) => SubmittedBy(i) = {})
    /\ [][\A i \in Tasks : \A k \in 1..Len(Chain) :
            (task[i].pc = Chain[k] /\ task'[i].pc # Chain[k]) =>
                /\ task'[i].pc \in {IF k < Len(Chain) THEN Chain[k + 1] ELSE "return",
                                    "return", "panicked"}
                /\ (k < Len(Chain) /\ task'[i].pc = "return") =>
                      /\ recorded'[i] = Failure(task[i].item_mint, ErrorOf(Chain[k]))
                      /\ submitted' = submitted
                /\ (k < Len(Chain) /\ task'[i].pc = Chain[k + 1]) =>
                      recorded'[i] = NoOutcome]_vars

\* a task whose decoding failed has returned Ok from migrate_mint without a
\* submission
C14_Witness ==
    \E i \in Tasks :
        /\ task[i].pc = "boundary"
        /\ recorded[i] = Failure(task[i].item_mint, ErrorOf(Chain[3]))
        /\ task[i].ret = "Ok"
        /\ SubmittedBy(i) = {}

\* C15: every permit is in the semaphore, with the driver between acquire and
\* spawn, or with exactly one task that has not ended; every end of a task,
\* by return or by panic, gives one back, so that a waiting driver can go on;
\* and once it has its permit the driver spawns without waiting, as the task
\* starts its chain without waiting.
C15_PermitHeldUntilEnd ==
    /\ [](/\ permits + Cardinality(Holding) + (IF held THEN 1 ELSE 0) = limit
          /\ held <=> pc = "spawn"
          /\ pc = "spawn" => ENABLED Spawn
          /\ \A i \in Tasks : task[i].pc = Chain[1] => ENABLED GetNftTokenAccount(i))
    /\ [][\A i \in Tasks :
            (~Ended(i) /\ Ended(i)') =>
                /\ permits' = permits + 1
                /\ pc' = "acquire" => permits' > 0]_vars

\* the one permit came back from a task that panicked while an item waits
C15_Witness ==
    /\ pc = "acquire"
    /\ limit = 1
    /\ permits = 1
    /\ next = 2
    /\ task[1].pc = "panicked"

\* C16: for a list of distinct identifiers, no identifier is in both the
\* batch-level success sequence and the batch-level failure sequence.
C16_SuccessAndFailureDisjoint ==
    Distinct(mints) =>
        \A k \in Items : ErrorsFor(mints[k]) = {} \/ MintsFor(mints[k]) = {}

\* a batch of distinct identifiers whose tasks ran side by side, one to a
\* Failure and one to a Success
C16_Witness ==
    /\ Distinct(mints) /\ Len(mints) >= 2
    /\ limit = SemaphorePermits
    /\ recorded[1].kind = "Failure" /\ task[1].pc = "finished"
    /\ recorded[2].kind = "Success" /\ task[2].pc = "finished"

\* C18: what migrate_mint records is in the collectors of its own task until
\* it returns and is dropped then; no step of migrate_mint changes the
\* batch-level sequences, and the batch-level failure sequence changes only
\* at the boundary of a task whose migrate_mint returned an error.
C18_OutcomesStayInTaskCollectors ==
    /\ [](\A i \in Tasks :
            /\ (task[i].pc = "return" /\ recorded[i].kind = "Failure") =>
                  /\ task[i].errors = << MigrationError(recorded[i].mint, recorded[i].detail) >>
                  /\ task[i].completed_mints = << >>
            /\ (task[i].pc = "return" /\ recorded[i].kind = "Success") =>
                  /\ task[i].completed_mints = << MigratedMint(recorded[i].detail, recorded[i].mint) >>
                  /\ task[i].errors = << >>
            /\ task[i].pc \in {"boundary", "finished", "panicked"} =>
                  task[i].errors = << >> /\ task[i].completed_mints = << >>)
    /\ [][/\ (\E i \in Tasks : task[i].pc \in ChainSteps \cup {"return"} /\ task'[i] # task[i]) =>
                errors' = errors /\ completed_mints' = completed_mints
          /\ (errors' # errors /\ get_state_result = "ok") =>
                \E i \in Tasks : /\ task[i].pc = "boundary" /\ task[i].ret # "Ok"
                                 /\ task'[i].pc = "finished"
          /\ get_state_result = "ok" => completed_mints' = completed_mints]_vars

\* a task recorded a Failure, has ended, and the batch-level sequence is empty
C18_Witness ==
    \E i \in Tasks :
        /\ task[i].pc = "finished"
        /\ recorded[i].kind = "Failure"
        /\ task[i].errors = << >>
        /\ errors = << >>

\* C19: once fetched the rule set does not change, the collection identifier
\* never changes, and every submission carries both.
C19_SharedReferenceReadOnly ==
    /\ [](\A p \in submitted :
            /\ p.rule_set = rule_set /\ p.rule_set \in RuleSets
            /\ p.collection_mint = collection_mint)
    /\ [][/\ collection_mint' = collection_mint
          /\ get_state_result # "none" => rule_set' = rule_set]_vars

\* two tasks have submitted
C19_Witness ==
    /\ Cardinality(submitted) >= 2
    /\ \E i \in Tasks : task[i].pc = "finished"

\* C20: the tasks spawned are those of the entries the loop has passed, each
\* for its own entry; a task submits at most once; so no identifier is
\* submitted more often than it occurs in the list.
C20_OneTaskOneSubmission ==
    /\ \A i \in Tasks :
          /\ Spawned(i) <=> (i < next)
          /\ Spawned(i) => (i \in Items /\ task[i].item_mint = mints[i])
          /\ Cardinality(SubmittedBy(i)) <= 1
    /\ next <= Len(mints) + 1
    /\ pc \in {"join", "finalize", "create", "write"} => next = Len(mints) + 1
    /\ \A m \in SeqToSet(mints) :
          Cardinality(SubmittedFor(m)) <= Cardinality({k \in Items : mints[k] = m})

\* an identifier that occurs twice in the list has been submitted twice
C20_Witness ==
    \E m \in SeqToSet(mints) :
        /\ Cardinality({k \in Items : mints[k] = m}) = 2
        /\ Cardinality(SubmittedFor(m)) = 2

====
